---- MODULE Spec2Model ----
(***************************************************************************)
(* cf-ddns: keeps the DNS "A" records of one hostname equal to the public  *)
(* IPv4 addresses of the host.  Two scripts of the repository are          *)
(* modelled: cf-ddns-sync.py (variant "sync") and cf-ddns.py (variant      *)
(* "ddns").  A behaviour is a sequence of runs of one of the scripts for   *)
(* one hostname against the provider's record set and the cache file.      *)
(***************************************************************************)
EXTENDS Integers, Sequences, FiniteSets, TLC

\* ------------------------------------------------------------------ bounds
NumIps    == 2      \* distinct public addresses, ordered as 1 < 2 < ...
MaxRemote == 2      \* records of the hostname at the provider before the first run
MaxCache  == 2      \* records in the cache file before the first run
MaxIfaces == 2      \* --source interfaces given on the command line
MaxRuns   == 2      \* consecutive runs of the script

DefaultTtl == 60    \* argparse default of --ttl

IPs      == 1..NumIps
TTLs     == {DefaultTtl, 300}
Variants == {"sync", "ddns"}

\* Outcomes of persisting the cache file: written, creating the cache
\* directory raises, opening/writing the file raises.
WriteOutcomes == {"ok", "mkdir_fail", "open_fail"}

VARIABLES
    variant,           \* which script runs
    ttl,               \* --ttl of the installed command line
    remote,            \* provider: the A records of the hostname, in listing order
    nextId,            \* provider: next record id it assigns
    cache,             \* the cache file of the hostname
    runs,              \* number of the current run
    prev,              \* source addresses and exit status of the previous run
    pc,                \* position of the current run
    source_addresses,  \* result of address discovery
    use_cache,         \* the run trusted the cache
    target_records,    \* the current record set the run works from
    existing_ips,      \* dict content -> record, as its items in insertion order
    i,                 \* index of the running loop
    updated_records,   \* cf-ddns.py: records collected for the cache
    calls,             \* directory calls and cache file operations of the run
    exit_status,       \* -1 while running, then the process exit status
    sources,           \* --source: per interface, the outcome of its lookups
    whoami,            \* outcome of the lookup made without an interface
    lookups,           \* the lookups address discovery made
    host,              \* --target of the run that is executing
    other,             \* the run for the other hostname, while it is not executing
    files,             \* /var/cache/cf-ddns: path -> content
    zone               \* provider: hostname -> its A records

\* The recorded inputs and lookups of address discovery.
resolve_vars == <<sources, whoami, lookups>>

\* The two hostnames sharing the cache directory and the zone.
host_vars == <<host, other, files, zone>>

vars == <<variant, ttl, remote, nextId, cache, runs, prev, pc, source_addresses,
          use_cache, target_records, existing_ips, i, updated_records, calls,
          exit_status, sources, whoami, lookups, host, other, files, zone>>

\* ----------------------------------------------------------------- records
Rec(id, ip, t) == [id |-> id, content |-> ip, ttl |-> t]

Contents(recs) == {recs[k].content : k \in DOMAIN recs}

Ids(recs) == {recs[k].id : k \in DOMAIN recs}

\* The cache file: kind is "json" for a file holding a snapshot, "missing"
\* when there is no file, "corrupt" when its content is no JSON, "denied"
\* when it cannot be opened for reading, "shape" when it is JSON but no
\* object (a list, a number).  Only a "json" file is present as a snapshot.
Unreadable(kind) == [present |-> FALSE, kind |-> kind, timestamp |-> 0, records |-> <<>>]

NoCache == Unreadable("missing")

CacheEntry(ts, recs) ==
    [present |-> TRUE, kind |-> "json", timestamp |-> ts, records |-> recs]

UnreadableKinds == {"missing", "corrupt", "denied", "shape"}

\* One entry of the run's log.  n is the number of records a list returned.
Call(op, id, ip, ok, n) == [op |-> op, id |-> id, ip |-> ip, ok |-> ok, n |-> n]

\* Mutant: the records are left in the order of the listing.
SortByContent_None(s) == s

\* sorted(records, key=content): Python's sort is stable.
InsertByContent(s, r) ==
    LET k == Cardinality({m \in DOMAIN s : s[m].content <= r.content})
    IN  SubSeq(s, 1, k) \o <<r>> \o SubSeq(s, k + 1, Len(s))

RECURSIVE SortByContent(_)
SortByContent(s) ==
    IF s = <<>> THEN <<>>
    ELSE InsertByContent(SortByContent(SubSeq(s, 1, Len(s) - 1)), s[Len(s)])

\* sorted(addresses) of a set of addresses.
RECURSIVE SortedSeq(_)
SortedSeq(S) ==
    IF S = {} THEN <<>>
    ELSE LET m == CHOOSE x \in S : \A y \in S : x <= y
         IN  <<m>> \o SortedSeq(S \ {m})

\* ------------------------------------------------------- address discovery
\* ifaces[k] is the public address found for the k-th --source interface, 0
\* when its bound public lookup fails and -1 when its local lookup fails;
\* ambient is the result of the lookup made when no interface is given
\* (0: failed).
RECURSIVE CollectAddresses(_, _)
CollectAddresses(ifaces, addresses) ==
    IF ifaces = <<>> THEN addresses
    ELSE LET ip == Head(ifaces)
         IN  CollectAddresses(Tail(ifaces),
                 IF ip > 0 /\ ip \notin {addresses[k] : k \in DOMAIN addresses}
                 THEN Append(addresses, ip) ELSE addresses)

\* Variant: the addresses are returned in the order they were found.
get_source_ipv4_addresses_Unsorted(ifaces, ambient) ==
    IF ifaces = <<>>
    THEN (IF ambient > 0 THEN <<ambient>> ELSE <<>>)
    ELSE CollectAddresses(ifaces, <<>>)

get_source_ipv4_addresses(ifaces, ambient) ==
    LET addresses == IF ifaces = <<>>
                     THEN (IF ambient > 0 THEN <<ambient>> ELSE <<>>)
                     ELSE CollectAddresses(ifaces, <<>>)
    IN  SortedSeq({addresses[k] : k \in DOMAIN addresses})

\* One lookup: "ambient" (dig without -b), "local" (ip address show of the
\* k-th interface) or "public" (dig -b with the local address of the k-th).
Lookup(kind, k, ok) == [kind |-> kind, iface |-> k, ok |-> ok]

\* The lookups of the loop over the interfaces, from the k-th on: the public
\* lookup is made only when the local one gave an address.
RECURSIVE InterfaceLookups(_, _)
InterfaceLookups(ifaces, k) ==
    IF k > Len(ifaces) THEN <<>>
    ELSE <<Lookup("local", k, ifaces[k] >= 0)>>
         \o (IF ifaces[k] >= 0 THEN <<Lookup("public", k, ifaces[k] > 0)>> ELSE <<>>)
         \o InterfaceLookups(ifaces, k + 1)

LookupsMade(ifaces, ambient) ==
    IF ifaces = <<>> THEN <<Lookup("ambient", 0, ambient > 0)>>
    ELSE InterfaceLookups(ifaces, 1)

\* Mutant: the empty result is not checked.
DiscoveryNeverFails(addresses) == FALSE

\* Empty result: "ERROR: Cannot get public IPv4 address." and sys.exit(1).
DiscoveryFails(addresses) == addresses = <<>>

\* ------------------------------------------------------------ cache check
\* Mutant: the comparison of the two lengths is left out.
should_refresh_cache_NoLength(c, source_ips) ==
    IF ~c.present \/ c.records = <<>> THEN TRUE
    ELSE \E k \in DOMAIN source_ips : source_ips[k] \notin Contents(c.records)

\* cf-ddns-sync.py, _should_refresh_cache.
should_refresh_cache(c, source_ips) ==
    IF ~c.present \/ c.records = <<>> THEN TRUE
    ELSE LET cached_ips == Contents(c.records)
         IN  \/ Len(source_ips) # Cardinality(cached_ips)
             \/ \E k \in DOMAIN source_ips : source_ips[k] \notin cached_ips

\* cf-ddns.py, get_target_dns_records: cached_ips is a list, so its length
\* counts a repeated content as often as it occurs.
ddns_use_cache(c, source_ips) ==
    /\ c.present
    /\ Len(source_ips) = Len(c.records)
    /\ \A k \in DOMAIN source_ips : source_ips[k] \in Contents(c.records)

\* Variant: any cache that holds records is trusted.
UseCache_WhenPresent(v, c, source_ips) == c.present /\ c.records # <<>>

UseCache(v, c, source_ips) ==
    IF v = "sync" THEN ~should_refresh_cache(c, source_ips)
    ELSE ddns_use_cache(c, source_ips)

\* -------------------------------------------------------------- the dict
\* {r['content']: r for r in target_records}: a repeated key keeps the place
\* of its first insertion and the value of its last.
DictPut(d, r) ==
    IF \E k \in DOMAIN d : d[k].content = r.content
    THEN [k \in DOMAIN d |-> IF d[k].content = r.content THEN r ELSE d[k]]
    ELSE Append(d, r)

\* Variant: the dict is left empty.
DictFromRecords_Empty(recs) == <<>>

RECURSIVE DictFromRecords(_)
DictFromRecords(recs) ==
    IF recs = <<>> THEN <<>>
    ELSE DictPut(DictFromRecords(SubSeq(recs, 1, Len(recs) - 1)), recs[Len(recs)])

DictGet(d, ip) == d[CHOOSE k \in DOMAIN d : d[k].content = ip]

\* ------------------------------------------------------------ the provider
\* POST: a new record with a fresh id.
ProviderCreate(rs, id, ip, t) == Append(rs, Rec(id, ip, t))

\* PUT of an existing record id: content and ttl are replaced.
ProviderUpdate(rs, id, ip, t) ==
    [k \in DOMAIN rs |-> IF rs[k].id = id THEN Rec(id, ip, t) ELSE rs[k]]

\* DELETE of an existing record id.
ProviderDelete(rs, id) == SelectSeq(rs, LAMBDA r : r.id # id)

\* A call naming a record id the provider does not hold is rejected.
Accepted(rs, id, ok) == ok /\ id \in Ids(rs)

\* ------------------------------------------------------- decisions of a run
\* Mutant: the ttl is not compared, every matched record is updated.
NeedsUpdate_Always(record, t) == TRUE

\* A record found for a source address is updated when its ttl differs.
NeedsUpdate(record, t) == record.ttl # t

\* Variant: every item of the dict is deleted.
NeedsDelete_Always(ip, source_ips) == TRUE

\* A record of the dict is deleted when its content is no source address.
NeedsDelete(ip, source_ips) == ip \notin {source_ips[k] : k \in DOMAIN source_ips}

\* The calls sync_records / sync_dns_records issues for a current record set
\* when every call succeeds: one step per source address, then one per item
\* of the dict.  A create carries no record id.
PlanOp(op, id, ip) == [op |-> op, id |-> id, ip |-> ip]

RECURSIVE PlanForSources(_, _, _)
PlanForSources(d, source_ips, t) ==
    IF source_ips = <<>> THEN <<>>
    ELSE LET ip   == Head(source_ips)
             step == IF ip \in Contents(d)
                     THEN IF NeedsUpdate(DictGet(d, ip), t)
                          THEN <<PlanOp("update", DictGet(d, ip).id, ip)>>
                          ELSE <<>>
                     ELSE <<PlanOp("create", 0, ip)>>
         IN  step \o PlanForSources(d, Tail(source_ips), t)

RECURSIVE PlanForDeletes(_, _)
PlanForDeletes(items, source_ips) ==
    IF items = <<>> THEN <<>>
    ELSE LET record == Head(items)
             step   == IF NeedsDelete(record.content, source_ips)
                       THEN <<PlanOp("delete", record.id, record.content)>>
                       ELSE <<>>
         IN  step \o PlanForDeletes(Tail(items), source_ips)

ReconciliationPlan(records, source_ips, t) ==
    LET d == DictFromRecords(records)
    IN  PlanForSources(d, source_ips, t) \o PlanForDeletes(d, source_ips)

\* Mutant: a failed delete is reported and the loop goes on.
AbortsExceptOnDelete(v, op) == op # "delete"

\* Variant: only a failed listing ends the run.
AbortsOnlyOnList(v, op) == op = "list"

\* A directory call that does not report success ends the run: sys.exit(1).
AbortsOnFailure(v, op) == TRUE

\* cf-ddns-sync.py lists the records again after the mutations; cf-ddns.py
\* writes the records it collected.
ListsAfterSync(v) == v = "sync"

\* cf-ddns-sync.py writes the listing to the cache before it syncs.
WritesCacheAfterList(v) == v = "sync"

\* A failed cache write that escapes as an exception: _write_cache catches
\* nothing; write_cache catches only around open/dump, not around mkdir.
WriteRaises(v, w) == IF v = "sync" THEN w # "ok" ELSE w = "mkdir_fail"

\* What the cache file holds after a successful write.
WrittenCache(v, ts, recs) ==
    IF v = "sync" THEN CacheEntry(ts, recs) ELSE CacheEntry(ts, SortByContent(recs))

\* Reading a cache file that raises an exception the script does not catch:
\* _read_cache catches FileNotFoundError and JSONDecodeError; read_cache also
\* catches PermissionError; neither catches the AttributeError of .get on a
\* JSON value that is no object.
ReadRaises(v, kind) ==
    IF v = "sync" THEN kind \in {"denied", "shape"} ELSE kind = "shape"

\* What reading the cache yields as the record list.
CachedRecords(v, c) == SortByContent(c.records)

\* ------------------------------------------------------------- hostnames
Hostnames == {"a.example.com", "b.example.com"}

OtherHost(h) == CHOOSE g \in Hostnames : g # h

\* Variant: one cache file whatever the hostname.
cache_file_Shared(hostname) == <<"/var/cache/cf-ddns", "", ".cache">>

\* f"{self.cache_dir}/{hostname}.cache" / get_cache_path.
cache_file(hostname) == <<"/var/cache/cf-ddns", hostname, ".cache">>

Paths == {cache_file(h) : h \in Hostnames}

\* A run that is not executing: its position and local variables, and the
\* cache entry and records of its hostname as it last saw them.
Suspended(p, src, uc, tr, ei, k, ur, cs, es, c, r) ==
    [pc |-> p, source_addresses |-> src, use_cache |-> uc, target_records |-> tr,
     existing_ips |-> ei, i |-> k, updated_records |-> ur, calls |-> cs,
     exit_status |-> es, cache |-> c, remote |-> r]

NotStarted(c, r) == Suspended("start", <<>>, FALSE, <<>>, <<>>, 0, <<>>, <<>>, -1, c, r)

\* ------------------------------------------------------------------- Init
InitRemotes ==
    UNION {{[k \in 1..n |-> Rec(k, f[k][1], f[k][2])] : f \in [1..n -> IPs \X TTLs]}
           : n \in 0..MaxRemote}

CacheRecs == {Rec(id, ip, t) : id \in 1..MaxRemote, ip \in IPs, t \in TTLs}

InitCaches ==
    {Unreadable(kind) : kind \in UnreadableKinds} \cup
    UNION {{CacheEntry(0, s) : s \in [1..n -> CacheRecs]} : n \in 0..MaxCache}

NoPrev == [src |-> <<>>, exit |-> -1]

Init ==
    /\ variant \in Variants
    /\ ttl \in TTLs
    /\ remote \in InitRemotes
    /\ nextId = MaxRemote + 1
    /\ cache \in InitCaches
    /\ runs = 1
    /\ prev = NoPrev
    /\ pc = "start"
    /\ source_addresses = <<>>
    /\ use_cache = FALSE
    /\ target_records = <<>>
    /\ existing_ips = <<>>
    /\ i = 0
    /\ updated_records = <<>>
    /\ calls = <<>>
    /\ exit_status = -1
    /\ sources = <<>>
    /\ whoami = 0
    /\ lookups = <<>>
    /\ host = "a.example.com"
    /\ other = NotStarted(NoCache, <<>>)
    /\ files = [p \in Paths |-> NoCache]
    /\ zone = [h \in Hostnames |-> <<>>]

\* ---------------------------------------------------------------- actions
Exit(code) == pc' = "done" /\ exit_status' = code

\* get_public_ipv4_addresses / get_source_ipv4_addresses.
Discover(ifaces, ambient) ==
    LET addresses == get_source_ipv4_addresses(ifaces, ambient)
    IN  IF DiscoveryFails(addresses)
        THEN /\ Exit(1)
             /\ UNCHANGED source_addresses
        ELSE /\ pc' = "records"
             /\ source_addresses' = addresses
             /\ UNCHANGED exit_status

\* The lookups have any outcome.
AddressDiscovery ==
    /\ pc = "start"
    /\ \E n \in 0..MaxIfaces : \E ifaces \in [1..n -> -1..NumIps] : \E ambient \in 0..NumIps :
         Discover(ifaces, ambient)
    /\ UNCHANGED <<variant, ttl, remote, nextId, cache, runs, prev, use_cache,
                   target_records, existing_ips, i, updated_records, calls>>
    /\ UNCHANGED <<resolve_vars, host_vars>>

\* get_dns_records / get_target_dns_records up to the decision: the cache is
\* read and, when trusted, becomes the current record set.
ReadCache ==
    /\ pc = "records"
    /\ IF ReadRaises(variant, cache.kind)
       THEN /\ calls' = Append(calls, Call("cache_read", 0, 0, FALSE, 0))
            /\ Exit(1)
            /\ UNCHANGED <<use_cache, target_records, existing_ips, i>>
       ELSE /\ calls' = Append(calls, Call("cache_read", 0, 0, TRUE, 0))
            /\ use_cache' = UseCache(variant, cache, source_addresses)
            /\ IF use_cache'
               THEN /\ target_records' = CachedRecords(variant, cache)
                    /\ existing_ips' = DictFromRecords(target_records')
                    /\ pc' = "sync"
                    /\ i' = 1
               ELSE /\ pc' = "list"
                    /\ UNCHANGED <<target_records, existing_ips, i>>
            /\ UNCHANGED exit_status
    /\ UNCHANGED <<variant, ttl, remote, nextId, cache, runs, prev,
                   source_addresses, updated_records>>
    /\ UNCHANGED <<resolve_vars, host_vars>>

\* _fetch_dns_records + _write_cache / get_dns_records_from_api.
ListRecords ==
    /\ pc = "list"
    /\ \E ok \in BOOLEAN : \E w \in WriteOutcomes :
         LET listed == Call("list", 0, 0, ok, IF ok THEN Len(remote) ELSE 0)
             wrote  == Call("cache_write", 0, 0, w = "ok", 0)
         IN  IF ~ok /\ AbortsOnFailure(variant, "list")
             THEN /\ w = "ok"
                  /\ calls' = Append(calls, listed)
                  /\ Exit(1)
                  /\ UNCHANGED <<cache, target_records, existing_ips, i>>
             ELSE LET records == IF ok THEN remote ELSE <<>>
                  IN  IF WritesCacheAfterList(variant)
                      THEN /\ calls' = calls \o <<listed, wrote>>
                           /\ cache' = IF w = "ok"
                                       THEN WrittenCache(variant, runs, records)
                                       ELSE cache
                           /\ IF WriteRaises(variant, w)
                              THEN /\ Exit(1)
                                   /\ UNCHANGED <<target_records, existing_ips, i>>
                              ELSE /\ target_records' = SortByContent(records)
                                   /\ existing_ips' = DictFromRecords(target_records')
                                   /\ pc' = "sync"
                                   /\ i' = 1
                                   /\ UNCHANGED exit_status
                      ELSE /\ w = "ok"
                           /\ calls' = Append(calls, listed)
                           /\ target_records' = SortByContent(records)
                           /\ existing_ips' = DictFromRecords(target_records')
                           /\ pc' = "sync"
                           /\ i' = 1
                           /\ UNCHANGED <<cache, exit_status>>
    /\ UNCHANGED <<variant, ttl, remote, nextId, runs, prev, source_addresses,
                   use_cache, updated_records>>
    /\ UNCHANGED <<resolve_vars, host_vars>>

\* End of one iteration of the loop over the source addresses.
AdvanceSync ==
    IF i < Len(source_addresses)
    THEN pc' = "sync" /\ i' = i + 1
    ELSE pc' = (IF existing_ips = <<>> THEN "refresh" ELSE "delete") /\ i' = 1

\* End of one iteration of the loop over the items of the dict.
AdvanceDelete ==
    IF i < Len(existing_ips)
    THEN pc' = "delete" /\ i' = i + 1
    ELSE pc' = "refresh" /\ i' = 1

\* cf-ddns.py appends to updated_records; cf-ddns-sync.py has no such list.
Collect(r) ==
    updated_records' = IF variant = "ddns" THEN Append(updated_records, r)
                       ELSE updated_records

\* The source address has a record with another ttl: PUT.
UpdateRecord ==
    /\ pc = "sync"
    /\ source_addresses[i] \in Contents(existing_ips)
    /\ LET ip     == source_addresses[i]
           record == DictGet(existing_ips, ip)
       IN  /\ NeedsUpdate(record, ttl)
           /\ \E ok \in BOOLEAN :
                LET done == Accepted(remote, record.id, ok)
                IN  /\ calls' = Append(calls, Call("update", record.id, ip, done, 0))
                    /\ IF ~done /\ AbortsOnFailure(variant, "update")
                       THEN /\ Exit(1)
                            /\ UNCHANGED <<remote, updated_records, i>>
                       ELSE /\ remote' = IF done
                                         THEN ProviderUpdate(remote, record.id, ip, ttl)
                                         ELSE remote
                            /\ Collect(IF done THEN Rec(record.id, ip, ttl) ELSE record)
                            /\ AdvanceSync
                            /\ UNCHANGED exit_status
    /\ UNCHANGED <<variant, ttl, nextId, cache, runs, prev, source_addresses,
                   use_cache, target_records, existing_ips>>
    /\ UNCHANGED <<resolve_vars, host_vars>>

\* The source address has a record with the configured ttl: "Skipping".
SkipRecord ==
    /\ pc = "sync"
    /\ source_addresses[i] \in Contents(existing_ips)
    /\ LET record == DictGet(existing_ips, source_addresses[i])
       IN  /\ ~NeedsUpdate(record, ttl)
           /\ Collect(record)
    /\ AdvanceSync
    /\ UNCHANGED <<variant, ttl, remote, nextId, cache, runs, prev, source_addresses,
                   use_cache, target_records, existing_ips, calls, exit_status>>
    /\ UNCHANGED <<resolve_vars, host_vars>>

\* The source address has no record: POST.
CreateRecord ==
    /\ pc = "sync"
    /\ source_addresses[i] \notin Contents(existing_ips)
    /\ \E ok \in BOOLEAN :
         LET ip == source_addresses[i]
         IN  /\ calls' = Append(calls, Call("create", IF ok THEN nextId ELSE 0, ip, ok, 0))
             /\ IF ~ok /\ AbortsOnFailure(variant, "create")
                THEN /\ Exit(1)
                     /\ UNCHANGED <<remote, nextId, updated_records, i>>
                ELSE /\ remote' = IF ok THEN ProviderCreate(remote, nextId, ip, ttl)
                                  ELSE remote
                     /\ nextId' = IF ok THEN nextId + 1 ELSE nextId
                     /\ Collect(Rec(IF ok THEN nextId ELSE 0, ip, ttl))
                     /\ AdvanceSync
                     /\ UNCHANGED exit_status
    /\ UNCHANGED <<variant, ttl, cache, runs, prev, source_addresses, use_cache,
                   target_records, existing_ips>>
    /\ UNCHANGED <<resolve_vars, host_vars>>

\* An item of the dict whose content is no source address: DELETE.
DeleteRecord ==
    /\ pc = "delete"
    /\ NeedsDelete(existing_ips[i].content, source_addresses)
    /\ \E ok \in BOOLEAN :
         LET record == existing_ips[i]
             done   == Accepted(remote, record.id, ok)
         IN  /\ calls' = Append(calls, Call("delete", record.id, record.content, done, 0))
             /\ IF ~done /\ AbortsOnFailure(variant, "delete")
                THEN /\ Exit(1)
                     /\ UNCHANGED <<remote, i>>
                ELSE /\ remote' = IF done THEN ProviderDelete(remote, record.id) ELSE remote
                     /\ AdvanceDelete
                     /\ UNCHANGED exit_status
    /\ UNCHANGED <<variant, ttl, nextId, cache, runs, prev, source_addresses, use_cache,
                   target_records, existing_ips, updated_records>>
    /\ UNCHANGED <<resolve_vars, host_vars>>

\* An item of the dict whose content is a source address is left alone.
KeepRecord ==
    /\ pc = "delete"
    /\ ~NeedsDelete(existing_ips[i].content, source_addresses)
    /\ AdvanceDelete
    /\ UNCHANGED <<variant, ttl, remote, nextId, cache, runs, prev, source_addresses,
                   use_cache, target_records, existing_ips, updated_records, calls,
                   exit_status>>
    /\ UNCHANGED <<resolve_vars, host_vars>>

\* The end of sync_records / sync_dns_records: the cache is written.
RefreshCache ==
    /\ pc = "refresh"
    /\ \E ok \in BOOLEAN : \E w \in WriteOutcomes :
         LET listed == Call("list", 0, 0, ok, IF ok THEN Len(remote) ELSE 0)
             wrote  == Call("cache_write", 0, 0, w = "ok", 0)
         IN  IF ListsAfterSync(variant)
             THEN IF ~ok /\ AbortsOnFailure(variant, "list")
                  THEN /\ w = "ok"
                       /\ calls' = Append(calls, listed)
                       /\ Exit(1)
                       /\ UNCHANGED cache
                  ELSE /\ calls' = calls \o <<listed, wrote>>
                       /\ cache' = IF w = "ok"
                                   THEN WrittenCache(variant, runs, IF ok THEN remote ELSE <<>>)
                                   ELSE cache
                       /\ Exit(IF WriteRaises(variant, w) THEN 1 ELSE 0)
             ELSE /\ ok
                  /\ calls' = Append(calls, wrote)
                  /\ cache' = IF w = "ok"
                              THEN WrittenCache(variant, runs, updated_records)
                              ELSE cache
                  /\ Exit(IF WriteRaises(variant, w) THEN 1 ELSE 0)
    /\ UNCHANGED <<variant, ttl, remote, nextId, runs, prev, source_addresses, use_cache,
                   target_records, existing_ips, i, updated_records>>
    /\ UNCHANGED <<resolve_vars, host_vars>>

\* The timer starts the script again.
NextRun ==
    /\ pc = "done"
    /\ runs < MaxRuns
    /\ runs' = runs + 1
    /\ prev' = [src |-> source_addresses, exit |-> exit_status]
    /\ pc' = "start"
    /\ source_addresses' = <<>>
    /\ use_cache' = FALSE
    /\ target_records' = <<>>
    /\ existing_ips' = <<>>
    /\ i' = 0
    /\ updated_records' = <<>>
    /\ calls' = <<>>
    /\ exit_status' = -1
    /\ UNCHANGED <<variant, ttl, remote, nextId, cache>>
    /\ UNCHANGED <<resolve_vars, host_vars>>

Next ==
    \/ AddressDiscovery
    \/ ReadCache
    \/ ListRecords
    \/ UpdateRecord
    \/ SkipRecord
    \/ CreateRecord
    \/ DeleteRecord
    \/ KeepRecord
    \/ RefreshCache
    \/ NextRun

Spec == Init /\ [][Next]_vars

\* ------------------------------------------------- address discovery alone
\* The outcomes of the lookups are fixed before the run and the lookups made
\* are recorded.
MaxSources == MaxIfaces + 1

SourceOutcomes == UNION {[1..n -> -1..NumIps] : n \in 0..MaxSources}

ResolveAddresses ==
    /\ pc = "start"
    /\ Discover(sources, whoami)
    /\ lookups' = LookupsMade(sources, whoami)
    /\ UNCHANGED <<variant, ttl, remote, nextId, cache, runs, prev, use_cache,
                   target_records, existing_ips, i, updated_records, calls>>
    /\ UNCHANGED <<sources, whoami, host_vars>>

InitResolve ==
    /\ variant \in Variants
    /\ ttl = DefaultTtl
    /\ remote = <<>>
    /\ nextId = MaxRemote + 1
    /\ cache = NoCache
    /\ runs = 1
    /\ prev = NoPrev
    /\ pc = "start"
    /\ source_addresses = <<>>
    /\ use_cache = FALSE
    /\ target_records = <<>>
    /\ existing_ips = <<>>
    /\ i = 0
    /\ updated_records = <<>>
    /\ calls = <<>>
    /\ exit_status = -1
    /\ sources \in SourceOutcomes
    /\ whoami \in 0..NumIps
    /\ lookups = <<>>
    /\ host = "a.example.com"
    /\ other = NotStarted(NoCache, <<>>)
    /\ files = [p \in Paths |-> NoCache]
    /\ zone = [h \in Hostnames |-> <<>>]

NextResolve == ResolveAddresses

SpecResolve == InitResolve /\ [][NextResolve]_vars

\* ------------------------------------------------- runs, again and again
\* The timer starts the script again, without end.  `prev` keeps the first
\* run that exited non-zero on a failed create, update or delete call: its
\* source addresses and its exit status.
FailedInPlan == exit_status > 0 /\ \E k \in DOMAIN calls :
                    calls[k].op \in {"create", "update", "delete"} /\ ~calls[k].ok

\* An earlier run exited non-zero in the middle of applying its plan.
Recovering == prev.exit > 0

\* The source addresses are those of that run and no directory call and no
\* cache file operation of the current run has failed.
Benign ==
    /\ \A k \in DOMAIN calls : calls[k].ok
    /\ pc = "start" \/ source_addresses = prev.src

\* The runs followed are those after a run that failed in its plan, for as
\* long as the source addresses stay the same and no call fails.
Retry ==
    /\ pc = "done"
    /\ IF Recovering THEN Benign ELSE FailedInPlan
    /\ prev' = IF prev.exit > 0 THEN prev
               ELSE IF FailedInPlan THEN [src |-> source_addresses, exit |-> exit_status]
               ELSE NoPrev
    /\ pc' = "start"
    /\ source_addresses' = <<>>
    /\ use_cache' = FALSE
    /\ target_records' = <<>>
    /\ existing_ips' = <<>>
    /\ i' = 0
    /\ updated_records' = <<>>
    /\ calls' = <<>>
    /\ exit_status' = -1
    /\ UNCHANGED <<variant, ttl, remote, nextId, cache, runs>>
    /\ UNCHANGED <<resolve_vars, host_vars>>

\* Before the first run the cache is missing or holds a listing of the
\* records of the hostname.
InitRecover ==
    /\ variant \in Variants
    /\ ttl \in TTLs
    /\ remote \in InitRemotes
    /\ nextId = MaxRemote + 1
    /\ cache \in {NoCache, CacheEntry(0, remote)}
    /\ runs = 1
    /\ prev = NoPrev
    /\ pc = "start"
    /\ source_addresses = <<>>
    /\ use_cache = FALSE
    /\ target_records = <<>>
    /\ existing_ips = <<>>
    /\ i = 0
    /\ updated_records = <<>>
    /\ calls = <<>>
    /\ exit_status = -1
    /\ sources = <<>>
    /\ whoami = 0
    /\ lookups = <<>>
    /\ host = "a.example.com"
    /\ other = NotStarted(NoCache, <<>>)
    /\ files = [p \in Paths |-> NoCache]
    /\ zone = [h \in Hostnames |-> <<>>]

NextRecover ==
    \/ AddressDiscovery
    \/ ReadCache
    \/ ListRecords
    \/ UpdateRecord
    \/ SkipRecord
    \/ CreateRecord
    \/ DeleteRecord
    \/ KeepRecord
    \/ RefreshCache
    \/ Retry

\* A started process runs to its end and the timer keeps firing.
SpecRecover == InitRecover /\ [][NextRecover]_vars /\ WF_vars(NextRecover)

\* ------------------------------------------------ two hostnames, two runs
\* One run for each hostname, started from the same command line but for
\* --target; their steps interleave. The variables of a run are those of
\* the run that is executing; the other run waits in `other`. The cache
\* directory and the zone are shared: `cache` is the file cache_file(host)
\* and `remote` the records named host, written back on every switch.
Switch ==
    /\ host' = OtherHost(host)
    /\ files' = [files EXCEPT ![cache_file(host)] = cache]
    /\ zone' = [zone EXCEPT ![host] = remote]
    /\ cache' = files'[cache_file(host')]
    /\ remote' = zone'[host']
    /\ other' = Suspended(pc, source_addresses, use_cache, target_records, existing_ips,
                          i, updated_records, calls, exit_status, cache, remote)
    /\ pc' = other.pc
    /\ source_addresses' = other.source_addresses
    /\ use_cache' = other.use_cache
    /\ target_records' = other.target_records
    /\ existing_ips' = other.existing_ips
    /\ i' = other.i
    /\ updated_records' = other.updated_records
    /\ calls' = other.calls
    /\ exit_status' = other.exit_status
    /\ UNCHANGED <<variant, ttl, nextId, runs, prev, resolve_vars>>

\* The records of a hostname before the runs: none, or one record; the
\* provider's record ids are unique in the zone.
HostRecordId(h) == IF h = "a.example.com" THEN 1 ELSE 2

HostRemotes(h) == {<<>>} \cup {<<Rec(HostRecordId(h), ip, t)>> : ip \in IPs, t \in TTLs}

\* The cache entry of a hostname before the runs: missing, or what an
\* earlier run for that hostname wrote from a listing of its records.
HostCaches(h) == {NoCache} \cup {CacheEntry(0, r) : r \in HostRemotes(h) \ {<<>>}}

InitHosts ==
    /\ variant \in Variants
    /\ ttl = DefaultTtl
    /\ host = "a.example.com"
    /\ zone \in {z \in [Hostnames -> UNION {HostRemotes(h) : h \in Hostnames}] :
                    \A h \in Hostnames : z[h] \in HostRemotes(h)}
    /\ files \in {f \in [Paths -> UNION {HostCaches(h) : h \in Hostnames}] :
                     \A h \in Hostnames : f[cache_file(h)] \in HostCaches(h)}
    /\ remote = zone[host]
    /\ cache = files[cache_file(host)]
    /\ other = NotStarted(files[cache_file(OtherHost(host))], zone[OtherHost(host)])
    /\ nextId = MaxRemote + 1
    /\ runs = MaxRuns
    /\ prev = NoPrev
    /\ pc = "start"
    /\ source_addresses = <<>>
    /\ use_cache = FALSE
    /\ target_records = <<>>
    /\ existing_ips = <<>>
    /\ i = 0
    /\ updated_records = <<>>
    /\ calls = <<>>
    /\ exit_status = -1
    /\ sources = <<>>
    /\ whoami = 0
    /\ lookups = <<>>

NextHosts ==
    \/ AddressDiscovery
    \/ ReadCache
    \/ ListRecords
    \/ UpdateRecord
    \/ SkipRecord
    \/ CreateRecord
    \/ DeleteRecord
    \/ KeepRecord
    \/ RefreshCache
    \/ Switch

SpecHosts == InitHosts /\ [][NextHosts]_vars

\* The same runs started with remote records of addresses the host no longer
\* has (one address beyond the ones discovery can return), and a cache that
\* is missing or a snapshot of such records.
WideIPs == 1..(NumIps + 1)

WideRemotes ==
    UNION {{[k \in 1..n |-> Rec(k, f[k][1], f[k][2])] : f \in [1..n -> WideIPs \X TTLs]}
           : n \in 0..MaxRemote}

InitPlan ==
    /\ variant \in Variants
    /\ ttl \in TTLs
    /\ remote \in WideRemotes
    /\ nextId = MaxRemote + 1
    /\ cache \in {NoCache} \cup {CacheEntry(0, r) : r \in WideRemotes}
    /\ runs = 1
    /\ prev = NoPrev
    /\ pc = "start"
    /\ source_addresses = <<>>
    /\ use_cache = FALSE
    /\ target_records = <<>>
    /\ existing_ips = <<>>
    /\ i = 0
    /\ updated_records = <<>>
    /\ calls = <<>>
    /\ exit_status = -1
    /\ sources = <<>>
    /\ whoami = 0
    /\ lookups = <<>>
    /\ host = "a.example.com"
    /\ other = NotStarted(NoCache, <<>>)
    /\ files = [p \in Paths |-> NoCache]
    /\ zone = [h \in Hostnames |-> <<>>]

SpecPlan == InitPlan /\ [][Next]_vars

\* ----------------------------------------------------- vocabulary of claims
DirOps == {"list", "create", "update", "delete"}

MutOps == {"create", "update", "delete"}

SourceSet == {source_addresses[k] : k \in DOMAIN source_addresses}

Finished == pc = "done"

Succeeded == pc = "done" /\ exit_status = 0

CallsOf(ops) == {k \in DOMAIN calls : calls[k].op \in ops}

FailedCalls(ops) == {k \in CallsOf(ops) : ~calls[k].ok}

DeletesOf(id) == {k \in CallsOf({"delete"}) : calls[k].id = id}

\* The cache has just been read and nothing else has happened in the run.
Decided == pc \in {"list", "sync"} /\ Len(calls) = 1

\* The validity check as the specification words it.
CacheValid(c, S) == c.present /\ c.records # <<>> /\ Contents(c.records) = S

\* The first directory call of the run is a successful list of no record.
ListedEmpty ==
    /\ ~use_cache
    /\ \E k \in CallsOf({"list"}) :
         /\ calls[k].ok /\ calls[k].n = 0
         /\ \A m \in CallsOf(DirOps) : k <= m

\* ------------------------------------------------------------------ claims
\* C1 (as claimed): after a run that exits 0 the contents of the remote A
\* records of the hostname are exactly the source addresses.
C1_Convergence == Succeeded => Contents(remote) = SourceSet

\* C2 (as claimed): a run that does not trust the cache and whose list call
\* returns no record ends with a non-zero status and issues no create,
\* update or delete call.
C2_UnknownHost ==
    ListedEmpty => /\ CallsOf(MutOps) = {}
                   /\ Finished => exit_status # 0

\* C3 (as claimed): a run that follows a run with exit status 0 and has the
\* same source addresses (same ttl, no other writer) issues no create,
\* update or delete call.
C3_Idempotence ==
    (runs >= 2 /\ prev.exit = 0 /\ source_addresses # <<>> /\ prev.src = source_addresses)
        => CallsOf(MutOps) = {}

\* C4 (as claimed): in a completed run whose directory calls all succeeded,
\* every record of the current record set whose content is no source address
\* got exactly one delete call with its id, and no other record got one.
C4_DeletionCorrectness ==
    Succeeded =>
        \A k \in DOMAIN target_records :
            LET r == target_records[k]
            IN  IF r.content \in SourceSet
                THEN DeletesOf(r.id) = {}
                ELSE Cardinality(DeletesOf(r.id)) = 1

\* C5 (as claimed): after a run that exits 0 every remaining remote A record
\* of the hostname has the configured ttl.
C5_TtlAlignment == Succeeded => \A k \in DOMAIN remote : remote[k].ttl = ttl

\* C6 (as claimed): the cache is trusted if and only if it is present, its
\* record list is non-empty and the set of its contents equals the source
\* address set, whatever its timestamp and whatever repetitions it holds.
C6_CacheValidity == Decided => (use_cache <=> CacheValid(cache, SourceSet))

\* What the two scripts trust: cf-ddns.py also wants one cached record per
\* source address, so it lists again when the cache repeats a content.
TrustedCache(v, c, source_ips) ==
    /\ CacheValid(c, {source_ips[k] : k \in DOMAIN source_ips})
    /\ v = "ddns" => Len(c.records) = Len(source_ips)

\* C7 (as claimed): when the cache is valid for the source addresses the
\* cached record list is the current record set and the run issues no
\* directory list call at all.
C7_CacheHitSkipsListing ==
    /\ (Decided /\ CacheValid(cache, SourceSet))
           => (use_cache /\ target_records = SortByContent(cache.records))
    /\ use_cache => CallsOf({"list"}) = {}

\* C7 (amended): the cache is trusted exactly when it is present, non-empty
\* and set-equal to the source addresses and, in cf-ddns.py, holds as many
\* records as there are source addresses; a run that trusts it works from the
\* cached list sorted by content and issues no list call before it has
\* applied its plan: cf-ddns.py issues none, cf-ddns-sync.py issues one, after
\* its last create/update/delete call, as the last directory call of the run.
C7_CacheHitListsOnlyAtEnd ==
    /\ Decided => (use_cache <=> TrustedCache(variant, cache, source_addresses))
    /\ (Decided /\ use_cache) => target_records = SortByContent(cache.records)
    /\ use_cache =>
          /\ Cardinality(CallsOf({"list"})) <= 1
          /\ \A k \in CallsOf({"list"}) :
                /\ variant = "sync"
                /\ pc = "done"
                /\ \A m \in CallsOf(MutOps) : m < k
          /\ (Succeeded /\ variant = "sync") => CallsOf({"list"}) # {}

\* C7 witness: a finished cf-ddns-sync.py run that trusted the cache, updated
\* a cached record and then listed.
C7_Witness ==
    /\ use_cache /\ Succeeded /\ variant = "sync"
    /\ CallsOf({"update"}) # {}
    /\ CallsOf({"list"}) # {}

\* C8: a run in which a directory call (list, create, update, delete)
\* reported failure ends with a non-zero exit status, whatever else succeeded;
\* exit status 0 means every directory call of the run succeeded.
C8_FailureNeverSilent == Finished => (FailedCalls(DirOps) # {} => exit_status # 0)

\* C8 witness: a run that created a record, then failed to delete one, and
\* ended with status 1.
C8_Witness ==
    /\ Finished /\ exit_status = 1
    /\ \E k \in CallsOf({"create"}) : calls[k].ok
    /\ \E k \in CallsOf({"delete"}) : ~calls[k].ok

\* C9: when address discovery yields no address the run ends with status 1
\* having made no directory call and no cache read or write; no later step of
\* a run is ever taken without a source address.
C9_DiscoveryFailure ==
    /\ pc \notin {"start", "done"} => source_addresses # <<>>
    /\ (Finished /\ source_addresses = <<>>) => (exit_status = 1 /\ calls = <<>>)

\* C9 witness: a run ended by the failure of address discovery.
C9_Witness == Finished /\ source_addresses = <<>> /\ exit_status = 1 /\ runs = 1

\* C10 (as claimed): a failed cache write does not change the exit status:
\* a finished run whose directory calls all succeeded exits 0 even when a
\* cache write failed.
C10_CacheWriteNonFatal ==
    (Finished /\ FailedCalls({"cache_write"}) # {} /\ FailedCalls(DirOps) = {})
        => exit_status = 0

\* C11 (as claimed): a cache file that cannot be read or parsed (missing,
\* corrupt, permission denied, unexpected shape) is treated as no cache: the
\* read never ends the run, which goes on to the directory list call.
C11_CacheReadFailsOpen ==
    (Len(calls) = 1 /\ calls[1].op = "cache_read" /\ cache.kind \in UnreadableKinds)
        => pc = "list"

\* C12 (as claimed): the cache is only an optimization: a run that trusts
\* the cache issues the create/update/delete calls (same record ids) that
\* the same run would issue from the directory listing, had it no cache.
C12_CacheIsOnlyOptimization ==
    (Decided /\ use_cache)
        => ReconciliationPlan(target_records, source_addresses, ttl)
               = ReconciliationPlan(SortByContent(remote), source_addresses, ttl)

\* The current record set holds one record per content.
OnePerContent(recs) == Cardinality(Contents(recs)) = Len(recs)

TargetSet == {target_records[k] : k \in DOMAIN target_records}

\* The reference diff of the current record set against the source set.
RefCreates == SourceSet \ Contents(target_records)

RefUpdates == {r \in TargetSet : r.content \in SourceSet /\ r.ttl # ttl}

RefDeletes == {r \in TargetSet : r.content \notin SourceSet}

\* C14: in a run whose directory calls all succeed and whose current record
\* set C holds one record per content, the calls issued are exactly one
\* Create(ip) per source ip without a record in C, one Update(id, ip, ttl) per
\* source ip whose record in C has another ttl, one Delete(id) per record of
\* C whose content is no source ip, and nothing for a source ip whose record
\* already has the configured ttl; an updated record then holds the
\* configured ttl (record ids being distinct).
C14_PlanMatchesDiff ==
    (Succeeded /\ OnePerContent(target_records)) =>
        /\ {calls[k].ip : k \in CallsOf({"create"})} = RefCreates
        /\ {<<calls[k].id, calls[k].ip>> : k \in CallsOf({"update"})}
               = {<<r.id, r.content>> : r \in RefUpdates}
        /\ Cardinality(Ids(target_records)) = Len(target_records) =>
               \A k \in CallsOf({"update"}) :
                   \E m \in DOMAIN remote : remote[m] = Rec(calls[k].id, calls[k].ip, ttl)
        /\ {calls[k].id : k \in CallsOf({"delete"})} = {r.id : r \in RefDeletes}
        /\ Cardinality(CallsOf(MutOps))
               = Cardinality(RefCreates) + Cardinality(RefUpdates) + Cardinality(RefDeletes)

\* C14 witness (Scenario 2): one record of another address with the
\* configured ttl; the run created the source address, deleted the record
\* and updated nothing.
C14_Witness ==
    /\ Succeeded /\ ~use_cache
    /\ Len(target_records) = 1 /\ Len(source_addresses) = 1
    /\ target_records[1].content \notin SourceSet
    /\ target_records[1].ttl = ttl
    /\ \E k \in CallsOf({"create"}) : \E m \in CallsOf({"delete"}) :
          k < m /\ calls[m].id = target_records[1].id
    /\ CallsOf({"update"}) = {}

\* C15: within one run every create and update call comes before the first
\* delete call; creates and updates follow the sorted order of the source
\* addresses and deletes the sorted-by-content order of the current records.
C15_OperationOrdering ==
    \A k \in CallsOf(MutOps) : \A m \in CallsOf(MutOps) :
        k < m =>
            /\ calls[k].op = "delete" => calls[m].op = "delete"
            /\ calls[m].op # "delete" => calls[k].ip < calls[m].ip
            /\ calls[k].op = "delete" => calls[k].ip < calls[m].ip

\* C15 witness: a run that listed the records out of order, created a
\* record and then deleted two.
C15_Witness ==
    /\ Succeeded /\ ~use_cache
    /\ CallsOf({"create"}) # {}
    /\ Cardinality(CallsOf({"delete"})) = 2
    /\ \E k \in DOMAIN calls : calls[k].op = "list" /\ calls[k].n = 2
                                /\ k < Len(calls) - 1
    /\ target_records[1].id > target_records[2].id

\* C16 (as claimed): a run that applied its plan (an empty plan included)
\* ends with a directory list call made after its last create/update/delete
\* call and writes exactly that listing to the cache.
C16_CacheRefreshReflectsLive ==
    Succeeded =>
        /\ Len(calls) >= 2
        /\ calls[Len(calls) - 1].op = "list"
        /\ calls[Len(calls)].op = "cache_write"
        /\ calls[Len(calls)].ok => (cache.kind = "json" /\ cache.records = remote)

\* A step that is an early fatal error: address discovery that ends the run,
\* or a listing before the plan that fails or returns no record.
EarlyFatalError ==
    \/ pc = "start" /\ pc' = "done"
    \/ /\ pc = "list"
       /\ \E k \in DOMAIN calls' :
            /\ k > Len(calls)
            /\ calls'[k].op = "list"
            /\ ~calls'[k].ok \/ calls'[k].n = 0

\* C17 (as claimed): a run that fails at or before plan computation (no
\* source address, failed list call, empty listing) leaves the cache as it
\* was, ends with a non-zero status and advances to no later step.
C17_NoRefreshOnEarlyFatal ==
    [][EarlyFatalError => (cache' = cache /\ pc' = "done" /\ exit_status' > 0)]_vars

\* C18: the first failed directory call of a run is the last entry of the
\* run's log of directory calls and cache file operations, and the run is
\* over: no retry, no remaining operation, no final listing, no cache write.
C18_FailFast ==
    \A k \in FailedCalls(DirOps) : k = Len(calls) /\ pc = "done" /\ exit_status = 1

\* A run whose first create failed while another source address and a
\* stale record were still to be handled.
C18_Witness ==
    /\ Finished
    /\ Len(source_addresses) = 2
    /\ i = 1
    /\ \E k \in FailedCalls({"create"}) : calls[k].ip = source_addresses[1]
    /\ remote # <<>>
    /\ CallsOf({"update", "delete"}) = {}

\* The create and update calls of the run for one address.
UpsertsOf(ip) == {k \in CallsOf({"create", "update"}) : calls[k].ip = ip}

\* C19: a run issues at most one create or update call per source address
\* (never both), an update names a record of the current set with that
\* content, and no create is issued for an address that has a record in
\* the current set.
C19_AtMostOnePerAddress ==
    /\ \A ip \in IPs : Cardinality(UpsertsOf(ip)) <= 1
    /\ \A k \in CallsOf({"create", "update"}) : calls[k].ip \in SourceSet
    /\ \A k \in CallsOf({"create"}) : calls[k].ip \notin Contents(target_records)
    /\ \A k \in CallsOf({"update"}) :
         \E m \in DOMAIN target_records :
             target_records[m].id = calls[k].id /\ target_records[m].content = calls[k].ip

\* The current set holds two records of one source address with a ttl to
\* correct, and the other source address has none: one update, one create.
C19_Witness ==
    /\ Succeeded
    /\ Len(source_addresses) = 2
    /\ Len(target_records) = 2
    /\ target_records[1].content = target_records[2].content
    /\ target_records[1].content \in SourceSet
    /\ Cardinality(CallsOf({"update"})) = 1
    /\ Cardinality(CallsOf({"create"})) = 1

\* The addresses of the interfaces whose public lookup was made and succeeded.
ResolvedByInterfaces ==
    {sources[lookups[m].iface] : m \in {n \in DOMAIN lookups :
                                          lookups[n].kind = "public" /\ lookups[n].ok}}

\* C20: with interfaces given, the result is strictly increasing (sorted,
\* no duplicate) and holds exactly the public addresses of the interfaces
\* whose local and bound public lookups both succeeded, and the run goes on
\* when there is one; with no interface given, exactly one lookup is made,
\* the ambient one, and the result has at most one member.
C20_AddressResolution ==
    pc # "start" =>
        /\ \A k \in 1..(Len(source_addresses) - 1) :
               source_addresses[k] < source_addresses[k + 1]
        /\ sources # <<>> =>
               /\ SourceSet = ResolvedByInterfaces
               /\ \A k \in DOMAIN sources :
                      /\ Cardinality({m \in DOMAIN lookups : lookups[m].kind = "local"
                                          /\ lookups[m].iface = k}) = 1
                      /\ (sources[k] > 0) <=>
                             \E m \in DOMAIN lookups : /\ lookups[m].kind = "public"
                                                        /\ lookups[m].iface = k
                                                        /\ lookups[m].ok
               /\ \A m \in DOMAIN lookups : lookups[m].kind # "ambient"
               /\ (\E k \in DOMAIN sources : sources[k] > 0)
                      => (pc = "records" /\ exit_status = -1)
        /\ sources = <<>> =>
               /\ Len(lookups) = 1
               /\ lookups[1].kind = "ambient"
               /\ Len(source_addresses) <= 1
               /\ (whoami > 0) => source_addresses = <<whoami>>

\* Three interfaces: the first resolves to the greater address, the second
\* has no local address, the third resolves to the smaller address.
C20_Witness ==
    /\ pc = "records"
    /\ Len(sources) = 3
    /\ sources[1] > sources[3]
    /\ sources[3] > 0
    /\ sources[2] = -1
    /\ source_addresses = <<sources[3], sources[1]>>

\* C13: whenever the run for a hostname is resumed after steps of the run
\* for the other hostname, the cache entry and the records of its hostname
\* are exactly as it left them: no step of the other run read-modified
\* them, so each run proceeds, and ends, as it does alone.
C13_HostnamesIndependent ==
    [][host' # host => (cache' = other.cache /\ remote' = other.remote)]_vars

\* Both runs succeeded after interleaved steps: the executing run created
\* two records, the other run created one in between, and both wrote
\* their cache entry.
C13_Witness ==
    /\ Succeeded
    /\ other.pc = "done"
    /\ other.exit_status = 0
    /\ \E k \in CallsOf({"create"}) : \E m \in CallsOf({"create"}) :
         \E n \in DOMAIN other.calls :
            /\ other.calls[n].op = "create"
            /\ calls[k].id < other.calls[n].id
            /\ other.calls[n].id < calls[m].id
    /\ cache.kind = "json" /\ cache.timestamp = runs
    /\ other.cache.kind = "json" /\ other.cache.timestamp = runs
    /\ cache # other.cache

\* The records of a list, as a set.
RecordSet(recs) == {recs[k] : k \in DOMAIN recs}

\* C21 (as claimed): after a run that took its current record set from the
\* directory, wrote the cache and exited 0, the records stored in the cache
\* are the remote records of the hostname (same ids, contents and ttls).
C21_CacheCoherentAfterSuccess ==
    (/\ Succeeded
     /\ ~use_cache
     /\ calls[Len(calls)].op = "cache_write"
     /\ calls[Len(calls)].ok)
        => (cache.kind = "json" /\ RecordSet(cache.records) = RecordSet(remote))

\* C23: a run that trusted the cache issues no create and no delete call;
\* each of its update calls names a cached record of that content whose
\* cached ttl is not the configured ttl.
C23_CacheHitOnlyUpdates ==
    use_cache =>
        /\ CallsOf({"create", "delete"}) = {}
        /\ \A k \in CallsOf({"update"}) :
             \E m \in DOMAIN target_records :
                 /\ target_records[m].id = calls[k].id
                 /\ target_records[m].content = calls[k].ip
                 /\ target_records[m].ttl # ttl

\* A finished run that trusted a cache of two records, both with another
\* ttl, and updated both.
C23_Witness ==
    /\ use_cache
    /\ Succeeded
    /\ Len(target_records) = 2
    /\ Cardinality(CallsOf({"update"})) = 2
    /\ FailedCalls(DirOps) = {}

\* The run took its current record set from the directory and the listing
\* held at least one record.
ListedSome ==
    /\ ~use_cache
    /\ Len(calls) >= 2
    /\ calls[2].op = "list"
    /\ calls[2].ok
    /\ calls[2].n >= 1

\* C24: from such a listing on, after every directory call of the run,
\* completed or aborted, the hostname has at least one record.
C24_NoZeroRecordWindow == ListedSome => remote # <<>>

\* The only listed record was of an address the host no longer has: the
\* run created a record for the source address, then deleted the listed one.
C24_Witness ==
    /\ ListedSome
    /\ Succeeded
    /\ calls[2].n = 1
    /\ \E k \in CallsOf({"create"}) : \E m \in CallsOf({"delete"}) :
         k < m /\ calls[k].ok /\ calls[m].ok
    /\ Len(remote) = 1

\* A run that exited 0 without a create, update or delete call, the remote
\* contents being the source addresses, each with the configured ttl.
Recovered ==
    /\ Succeeded
    /\ CallsOf(MutOps) = {}
    /\ Contents(remote) = SourceSet
    /\ \A k \in DOMAIN remote : remote[k].ttl = ttl

\* C22 (as claimed): after a run that exited non-zero in the middle of its
\* plan, repeated runs with the same source addresses and no failing call
\* eventually finish a run that changes nothing, with the remote contents
\* equal to the source addresses and every ttl the configured one.
C22_RecoveryAfterPartialFailure == Recovering ~> (Recovered \/ ~Benign)

====
